---- MODULE Spec2Model ----
(***************************************************************************)
(* Model of gemini-repo-cli: the prompt assemblers, the provider           *)
(* constructor and the generation pipeline of                              *)
(*   src/src/gemini_repo/api.py            (variant "api", strict reads)   *)
(*   src/gemini_repo/gemini_repo_api.py    (variant "legacy", best effort) *)
(*   src/gemini_repo_cli/gemini_repo_cli.py (variant "cli", best effort,   *)
(*                                           streams to standard output)   *)
(* Python str values are TLA+ strings, Optional[str] is a sequence of      *)
(* length 0 (None) or 1, a list is a sequence.                             *)
(***************************************************************************)
EXTENDS Integers, Sequences, FiniteSets, TLC

\* ---------------------------------------------------------------- bounds
\* Longest file_paths argument.
MaxPaths == 2
\* Most chunks the backend streams in one response.
MaxChunks == 3

\* Button clicks (Generate, Add, Remove) handled in one run of a window.
MaxClicks == 2

\* ------------------------------------------------------- Python values
None == << >>
Some(s) == << s >>
\* Python truthiness of an Optional[str]: None and "" are falsy.
Truthy(o) == o # None /\ o[1] # ""
\* `a or b` on Optional[str].
PyOr(a, b) == IF Truthy(a) THEN a ELSE b
\* str(x) as print() and f-strings apply it to an Optional[str].
PyStr(o) == IF o = None THEN "None" ELSE o[1]

RECURSIVE Join(_)
\* "".join(parts)
Join(parts) == IF parts = << >> THEN "" ELSE Head(parts) \o Join(Tail(parts))

RECURSIVE Flatten(_)
\* The text segments of a list of lists, in order.
Flatten(groups) == IF groups = << >> THEN << >> ELSE Head(groups) \o Flatten(Tail(groups))

SeqsUpTo(S, n) == UNION {[1..k -> S] : k \in 0..n}

StartsWith(s, p) == Len(s) >= Len(p) /\ SubSeq(s, 1, Len(p)) = p
EndsWith(s, p) == Len(s) >= Len(p) /\ SubSeq(s, Len(s) - Len(p) + 1, Len(s)) = p

NoErr == [type |-> "", msg |-> ""]
Raise(t, m) == [type |-> t, msg |-> m]

\* `sub in s` on strings.
Contains(s, sub) ==
    \E i \in 1..(Len(s) - Len(sub) + 1) : SubSeq(s, i, i + Len(sub) - 1) = sub

\* exit_code while the process has not exited.
Running == -1

\* Index of the last "/" of s, 0 if there is none.
LastSlash(s) ==
    LET I == {i \in 1..Len(s) : SubSeq(s, i, i) = "/"} IN
    IF I = {} THEN 0 ELSE CHOOSE i \in I : \A j \in I : j <= i

RECURSIVE RStripSlash(_)
\* head.rstrip('/')
RStripSlash(s) ==
    IF s # "" /\ SubSeq(s, Len(s), Len(s)) = "/"
    THEN RStripSlash(SubSeq(s, 1, Len(s) - 1))
    ELSE s

\* os.path.dirname(path) of posixpath.
Dirname(path) ==
    LET head == SubSeq(path, 1, LastSlash(path)) IN
    IF RStripSlash(head) = "" THEN head ELSE RStripSlash(head)

\* ------------------------------------------------------------ the inputs
Variants == {"api", "legacy", "cli"}
Strict(v) == v = "api"

Paths == {"a.txt", "b.txt"}
Contents == {"", "hello"}
Missing == [st |-> "missing", content |-> ""]
Unreadable == [st |-> "unreadable", content |-> ""]
File(c) == [st |-> "file", content |-> c]
FileStates == {Missing, Unreadable} \cup {File(c) : c \in Contents}

RepoNames == {"demo"}
TargetNames == {"out.md", "a.txt"}
Prompts == {"Summarize", ""}

\* The message of the OSError open()/read() raises on an unreadable path.
OsErrorText(path) == "[Errno 13] Permission denied: '" \o path \o "'"
\* The message of the FileNotFoundError open() raises on a missing path.
NotFoundText(path) == "[Errno 2] No such file or directory: '" \o path \o "'"
\* The exception open() raises on a path that is not a readable file.
OpenError(path, st) ==
    IF st = "missing"
    THEN [type |-> "FileNotFoundError", msg |-> NotFoundText(path)]
    ELSE [type |-> "PermissionError", msg |-> OsErrorText(path)]

\* ------------------------------------------------------------- the tags
RepoTag(repo_name) == "⫻const:repo_name\n" \o repo_name
ContextTagPrefix == "⫻context/file:"
ContextFile(file_path, file_content) ==
    ContextTagPrefix \o file_path \o "\n" \o file_content
\* Mutant: the directive without its trailing newline.
ApiTargetDirectiveNoNewline(target_file_name) ==
    "Generate content for the file: " \o target_file_name
ApiTargetDirective(target_file_name) ==
    "Generate content for the file: " \o target_file_name \o "\n"
LegacyTargetDirective(target_file_name) ==
    "Generate " \o target_file_name \o "\n"

VARIABLES
    variant,        \* which of the three programs runs
    fs,             \* the file system: path -> state of the file
    env,            \* os.getenv('GEMINI_API_KEY'), an Optional[str]
    api_key_arg,    \* the api_key argument of GeminiRepoAPI.__init__
    repo_name, file_paths, target_file_name, prompt,
    pc,             \* position of the run
    api_key,        \* self.api_key (api, legacy) / api_key of main (cli)
    client,         \* TRUE once Client(api_key=...) has been constructed
    idx,            \* index of the next element of file_paths to read
    model_inputs,   \* api.py: the flat list under construction / returned
    inputs,         \* legacy, cli: the list of lists under construction / returned
    reads,          \* the paths open() was called on, in order
    err,            \* the exception that left the current operation
    requests,       \* backend generation requests issued
    arrived,        \* the chunks the backend has streamed so far (Optional[str] text each)
    generated_content_parts, \* api.py line 118
    generated_content,       \* the accumulated / joined text
    result,         \* the value generate_content returned, an Optional[str]
    output_length,  \* "output_length" of api.py's generation_complete record, -1 before
    stdout,         \* the print() calls that wrote to standard output, in order
    underlying,     \* the exception open(), Client() or the backend raised last
    output_arg,     \* cli.py: args.output, an Optional[str]
    exit_code,      \* exit status of the process, Running while main runs
    stderr,         \* the lines printed to standard error, in order
    out_file,       \* content of the file at args.output, None while it does not exist
    out_dirs,       \* TRUE once os.makedirs created the directory of args.output
    ui,             \* the interactive frontend that runs: "qt", "tk", or "none"
    provider,       \* the provider selected in the window
    ui_pc,          \* the UI thread: "loop" (in the event loop) or "generating"
    button_enabled, \* qt6.py: generate_button.isEnabled()
    workers,        \* qt6.py: the GenerationWorker threads created so far
    generation_worker, \* qt6.py: self.generation_worker, index into workers, 0 for None
    events,         \* signals emitted by workers, queued for the UI thread
    dialogs,        \* the message boxes shown, in order
    output_display, \* the texts appended to the output area since it was cleared
    clicks,         \* Generate clicks handled so far
    init_error,     \* what the provider constructor raised in the latest click
    call_threads,   \* the threads that have called generate_content
    window_open,    \* FALSE once the window was closed and the application has quit
    reply,          \* qt6.py: the answer to the latest 'Confirm Exit' question, "" before
    ctor_calls,     \* provider constructor calls made by the Generate handler
    context_listbox, \* tkinter.py: the paths shown in the list box
    list_ops        \* add / remove operations on the context list so far

vars == << variant, fs, env, api_key_arg, repo_name, file_paths, target_file_name,
           prompt, pc, api_key, client, idx, model_inputs, inputs, reads, err,
           requests, arrived, generated_content_parts, generated_content, result,
           output_length, stdout, underlying, output_arg, exit_code, stderr,
           out_file, out_dirs, ui, provider, ui_pc, button_enabled, workers,
           generation_worker, events, dialogs, output_display, clicks, init_error,
           call_threads, window_open, reply, ctor_calls, context_listbox, list_ops >>

uiVars == << ui, provider, ui_pc, button_enabled, workers, generation_worker, events,
             dialogs, output_display, clicks, init_error, call_threads, window_open,
             reply, ctor_calls, context_listbox, list_ops >>
mainVars == << output_arg, exit_code, stderr, out_file, out_dirs >>
inputVars == << variant, fs, env, api_key_arg, repo_name, file_paths,
                target_file_name, prompt >>
asmVars == << idx, model_inputs, inputs, reads >>
genVars == << requests, arrived, generated_content_parts, generated_content,
              result, output_length >>

Write(site, text) == [site |-> site, text |-> text]

\* ------------------------------------------------------- reading a file
\* Mutant: a missing file reads as empty instead of raising.
ApiReadFileContentLenient(file_path) ==
    LET f == fs[file_path] IN
    IF f.st = "unreadable"
    THEN [exc |-> Raise("OSError", "Error reading file " \o file_path \o ": "
                                    \o OsErrorText(file_path)),
          content |-> ""]
    ELSE [exc |-> NoErr, content |-> f.content]

\* api.py _read_file_content: the content, or the exception it raises.
ApiReadFileContent(file_path) ==
    LET f == fs[file_path] IN
    CASE f.st = "file" -> [exc |-> NoErr, content |-> f.content]
      [] f.st = "missing" ->
            [exc |-> Raise("FileNotFoundError", "Context file not found: " \o file_path),
             content |-> ""]
      [] OTHER ->
            [exc |-> Raise("OSError", "Error reading file " \o file_path \o ": "
                                       \o OsErrorText(file_path)),
             content |-> ""]

\* gemini_repo_api.py _read_file_content and gemini_repo_cli.py read_file_content:
\* the content or None, and what was printed.
LegacyReadFileContent(file_path) ==
    LET f == fs[file_path] IN
    CASE f.st = "file" -> [value |-> Some(f.content), printed |-> << >>]
      [] f.st = "missing" ->
            [value |-> None,
             printed |-> << Write("read_error", "File not found: " \o file_path \o "\n") >>]
      [] OTHER ->
            [value |-> None,
             printed |-> << Write("read_error", "Error reading file " \o file_path \o ": "
                                     \o OsErrorText(file_path) \o "\n") >>]

\* ------------------------------------------------------ prompt assembly
\* Mutant: the repository tag ahead of the instruction.
ApiPromptHeadSwapped(initial_prompt, repo) == << RepoTag(repo), initial_prompt >>
\* api.py line 203.
ApiPromptHead(initial_prompt, repo) == << initial_prompt, RepoTag(repo) >>
\* gemini_repo_api.py line 136, gemini_repo_cli.py line 65.
LegacyPromptHead(initial_prompt, repo) == << << initial_prompt, RepoTag(repo) >> >>

\* Entry of _create_prompt_inputs / create_prompt_inputs.
CreatePromptInputs_Begin ==
    /\ pc = "assemble"
    /\ pc' = "reading"
    /\ idx' = 1
    /\ IF Strict(variant)
       THEN /\ model_inputs' = ApiPromptHead(prompt, repo_name)
            /\ inputs' = inputs
       ELSE /\ inputs' = LegacyPromptHead(prompt, repo_name)
            /\ model_inputs' = model_inputs
    /\ UNCHANGED << inputVars, mainVars, uiVars, api_key, client, reads, err, genVars, stdout,
                    underlying >>

\* api.py line 212.
ApiAppendContext(list, file_path, file_content) ==
    Append(list, ContextFile(file_path, file_content))

\* Mutant: a failed read is added as a part with empty content.
LegacyAppendContextAlways(list, file_path, file_content) ==
    Append(list, << ContextFile(file_path, IF file_content = None THEN "" ELSE file_content[1]) >>)

\* gemini_repo_api.py lines 142-143, gemini_repo_cli.py lines 71-72.
LegacyAppendContext(list, file_path, file_content) ==
    IF Truthy(file_content)
    THEN Append(list, << ContextFile(file_path, file_content[1]) >>)
    ELSE list

\* One iteration of the loop over file_paths.
CreatePromptInputs_Read ==
    /\ pc = "reading"
    /\ idx <= Len(file_paths)
    /\ LET file_path == file_paths[idx] IN
       /\ reads' = Append(reads, file_path)
       /\ IF Strict(variant)
          THEN LET r == ApiReadFileContent(file_path) IN
               IF r.exc = NoErr
               THEN /\ model_inputs' = ApiAppendContext(model_inputs, file_path, r.content)
                    /\ idx' = idx + 1
                    /\ UNCHANGED << pc, err, inputs, stdout, underlying >>
               ELSE \* lines 215-217: re-raised, the list is dropped with the frame
                    /\ err' = r.exc
                    /\ pc' = "asm_raised"
                    /\ model_inputs' = << >>
                    /\ underlying' = OpenError(file_path, fs[file_path].st)
                    /\ UNCHANGED << idx, inputs, stdout >>
          ELSE LET r == LegacyReadFileContent(file_path) IN
               /\ inputs' = LegacyAppendContext(inputs, file_path, r.value)
               /\ stdout' = stdout \o r.printed
               /\ idx' = idx + 1
               /\ underlying' = IF r.value = None
                                THEN OpenError(file_path, fs[file_path].st)
                                ELSE underlying
               /\ UNCHANGED << pc, err, model_inputs >>
    /\ UNCHANGED << inputVars, mainVars, uiVars, api_key, client, genVars >>

\* Mutant: the directive is appended only when a context file was added.
ApiAppendTargetIfContext(list, target) ==
    IF Len(list) > 2 THEN Append(list, ApiTargetDirective(target)) ELSE list
\* api.py line 220.
ApiAppendTarget(list, target) == Append(list, ApiTargetDirective(target))
\* gemini_repo_api.py line 147, gemini_repo_cli.py line 76.
LegacyAppendTarget(list, target) == Append(list, << LegacyTargetDirective(target) >>)

\* After the loop: the target directive is appended and the list returned.
CreatePromptInputs_Return ==
    /\ pc = "reading"
    /\ idx > Len(file_paths)
    /\ pc' = "assembled"
    /\ IF Strict(variant)
       THEN /\ model_inputs' = ApiAppendTarget(model_inputs, target_file_name)
            /\ inputs' = inputs
       ELSE /\ inputs' = LegacyAppendTarget(inputs, target_file_name)
            /\ model_inputs' = model_inputs
    /\ UNCHANGED << inputVars, mainVars, uiVars, api_key, client, idx, reads, err, genVars, stdout,
                    underlying >>

\* GeminiRepoUI.__init__ of qt6.py and of tkinter.py: the window as it is shown.
WindowShown ==
    /\ ui_pc = "loop"
    /\ button_enabled = TRUE
    /\ workers = << >>
    /\ generation_worker = 0
    /\ events = << >>
    /\ dialogs = << >>
    /\ output_display = << >>
    /\ clicks = 0
    /\ init_error = NoErr
    /\ call_threads = {}
    /\ window_open = TRUE
    /\ reply = ""
    /\ ctor_calls = 0
    /\ list_ops = 0

\* ------------------------------------------- the assemblers on their own
InitAssemble ==
    /\ variant \in Variants
    /\ fs \in [Paths -> FileStates]
    /\ env = None
    /\ api_key_arg = None
    /\ repo_name \in RepoNames
    /\ file_paths \in SeqsUpTo(Paths, MaxPaths)
    /\ target_file_name \in TargetNames
    /\ prompt \in Prompts
    /\ pc = "assemble"
    /\ api_key = None
    /\ client = FALSE
    /\ idx = 1
    /\ model_inputs = << >>
    /\ inputs = << >>
    /\ reads = << >>
    /\ err = NoErr
    /\ requests = 0
    /\ arrived = << >>
    /\ generated_content_parts = << >>
    /\ generated_content = ""
    /\ result = None
    /\ output_length = -1
    /\ stdout = << >>
    /\ underlying = NoErr
    /\ output_arg = None
    /\ exit_code = Running
    /\ stderr = << >>
    /\ out_file = None
    /\ out_dirs = FALSE
    /\ ui = "none"
    /\ provider = "Gemini"
    /\ context_listbox = << >>
    /\ WindowShown

NextAssemble ==
    \/ CreatePromptInputs_Begin
    \/ CreatePromptInputs_Read
    \/ CreatePromptInputs_Return

SpecAssemble == InitAssemble /\ [][NextAssemble]_vars

\* ------------------------------------------------- provider construction
EnvValues == {None, Some(""), Some("env-key")}
ApiKeyArgs == {None, Some(""), Some("arg-key")}
\* Messages of the errors the Client constructor and the backend raise.
ClientErrors == {"invalid client options"}
BackendErrors == {"503 UNAVAILABLE"}

\* Mutant: the environment variable wins over the argument.
ResolveApiKeyEnvFirst(arg, environment) == PyOr(environment, arg)
\* api.py line 44, gemini_repo_api.py line 30: api_key or os.getenv('GEMINI_API_KEY').
ResolveApiKey(arg, environment) == PyOr(arg, environment)

\* api.py line 48, gemini_repo_api.py line 34.
MissingKeyError(v) ==
    IF v = "api"
    THEN Raise("ValueError", "GEMINI_API_KEY not provided or set in environment variables.")
    ELSE Raise("ValueError", "GEMINI_API_KEY environment variable not set.")

\* Mutant: the constructor's error does not carry the client's message.
ClientInitErrorOpaque(v, e) == Raise("Exception", "Failed to initialize Gemini client")
\* api.py line 59, gemini_repo_api.py line 44.
ClientInitError(v, e) ==
    IF v = "api"
    THEN Raise("Exception", "Failed to initialize Google Gemini client: " \o e)
    ELSE Raise("Exception", "Failed to initialize Gemini client: " \o e)

\* Mutant: the client is constructed before the key is checked.
CtorClientFirst ==
    /\ pc = "new"
    /\ variant \in {"api", "legacy"}
    /\ api_key' = PyOr(api_key_arg, env)
    /\ client' = TRUE
    /\ IF ~Truthy(PyOr(api_key_arg, env))
       THEN /\ err' = Raise("ValueError", "GEMINI_API_KEY not set")
            /\ pc' = "ctor_raised"
       ELSE /\ pc' = "constructed"
            /\ err' = err
    /\ UNCHANGED << inputVars, mainVars, uiVars, asmVars, genVars, stdout, underlying >>

\* GeminiRepoAPI.__init__ of api.py and of gemini_repo_api.py.
Ctor ==
    /\ pc = "new"
    /\ variant \in {"api", "legacy"}
    /\ LET key == ResolveApiKey(api_key_arg, env) IN
       /\ api_key' = key
       /\ IF ~Truthy(key)
          THEN /\ err' = MissingKeyError(variant)
               /\ pc' = "ctor_raised"
               /\ UNCHANGED << client, underlying >>
          ELSE \/ /\ client' = TRUE
                  /\ pc' = "constructed"
                  /\ UNCHANGED << err, underlying >>
               \/ \E e \in ClientErrors :
                  /\ err' = ClientInitError(variant, e)
                  /\ underlying' = Raise("Exception", e)
                  /\ pc' = "ctor_raised"
                  /\ client' = client
    /\ UNCHANGED << inputVars, mainVars, uiVars, asmVars, genVars, stdout >>

\* ------------------------------------------------------ generate_content
\* Mutant: the request is sent straight away, without assembling a prompt.
GenerateContent_CallNoAssembly ==
    /\ pc = "constructed"
    /\ pc' = "streaming"
    /\ requests' = requests + 1
    /\ UNCHANGED << inputVars, mainVars, uiVars, api_key, client, asmVars, err, arrived,
                    generated_content_parts, generated_content, result, output_length,
                    stdout, underlying >>

\* generate_content is called on the constructed provider and enters
\* _create_prompt_inputs (api.py line 102, gemini_repo_api.py line 66).
GenerateContent_Call ==
    /\ pc = "constructed"
    /\ pc' = "assemble"
    /\ UNCHANGED << inputVars, mainVars, uiVars, api_key, client, asmVars, err, genVars, stdout,
                    underlying >>

\* gemini_repo_cli.py main, up to the call of create_prompt_inputs (line 176).
Main_Call ==
    /\ pc = "new"
    /\ variant = "cli"
    /\ pc' = "assemble"
    /\ UNCHANGED << inputVars, mainVars, uiVars, api_key, client, asmVars, err, genVars, stdout,
                    underlying >>

\* Mutant: every exception is wrapped, FileNotFoundError included.
GenerationErrorWrapAll(v, e) ==
    Raise("Exception", "An error occurred during content generation: " \o e.msg)

\* The exception generate_content raises for exception e caught in its try block
\* (api.py lines 132-140; gemini_repo_api.py lines 88-91 has the second clause only).
GenerationError(v, e) ==
    IF v = "api" /\ e.type = "FileNotFoundError"
    THEN e
    ELSE Raise("Exception", "An error occurred during content generation: " \o e.msg)

\* gemini_repo_cli.py lines 211-214: the exception is printed, main returns.
CliErrorLine(e) ==
    Write("error", "An error occurred during content generation: " \o e.msg \o "\n")

\* api.py: an exception of _create_prompt_inputs reaches the except clauses of
\* generate_content.
GenerateContent_AssemblyFailed ==
    /\ pc = "asm_raised"
    /\ variant = "api"
    /\ err' = GenerationError(variant, err)
    /\ pc' = "failed"
    /\ UNCHANGED << inputVars, mainVars, uiVars, api_key, client, asmVars, genVars, stdout,
                    underlying >>

\* gemini_repo_cli.py lines 180-190: the credential check and the client.
Main_Client ==
    /\ pc = "assembled"
    /\ variant = "cli"
    /\ api_key' = env
    /\ IF ~Truthy(env)
       THEN /\ stdout' = Append(stdout,
                  Write("error", "Error: GEMINI_API_KEY environment variable not set.\n"))
            /\ pc' = "failed"
            /\ UNCHANGED << client, underlying >>
       ELSE \/ /\ client' = TRUE
               /\ pc' = "client_ready"
               /\ UNCHANGED << stdout, underlying >>
            \/ \E e \in ClientErrors :
               /\ stdout' = Append(stdout, CliErrorLine(Raise("Exception", e)))
               /\ underlying' = Raise("Exception", e)
               /\ pc' = "failed"
               /\ client' = client
    /\ UNCHANGED << inputVars, mainVars, uiVars, asmVars, err, genVars >>

\* Mutant: the backend's exception leaves generate_content as it is.
BackendFailureUnwrapped(e) ==
    /\ underlying' = e
    /\ err' = e
    /\ stdout' = stdout
    /\ pc' = "failed"

\* What an exception e raised in the try block around the backend call does.
BackendFailure(e) ==
    /\ underlying' = e
    /\ IF variant = "cli"
       THEN /\ stdout' = Append(stdout, CliErrorLine(e))
            /\ err' = err
            /\ pc' = "failed"
       ELSE /\ err' = GenerationError(variant, e)
            /\ stdout' = stdout
            /\ pc' = "failed"

\* Mutant: a failed request is sent once more.
SendRequestRetrying ==
    /\ \/ pc = "assembled" /\ variant \in {"api", "legacy"}
       \/ pc = "client_ready" /\ variant = "cli"
       \/ pc = "failed" /\ requests = 1 /\ exit_code = Running
    /\ requests' = requests + 1
    /\ \/ /\ pc' = "streaming"
          /\ UNCHANGED << err, stdout, underlying >>
       \/ \E e \in BackendErrors : BackendFailure(Raise("Exception", e))
    /\ UNCHANGED << inputVars, mainVars, uiVars, api_key, client, asmVars, arrived,
                    generated_content_parts, generated_content, result, output_length >>

\* The streaming request: api.py lines 107-114, gemini_repo_api.py lines 71-75,
\* gemini_repo_cli.py lines 196-200.
SendRequest ==
    /\ \/ pc = "assembled" /\ variant \in {"api", "legacy"}
       \/ pc = "client_ready" /\ variant = "cli"
    /\ requests' = requests + 1
    /\ \/ /\ pc' = "streaming"
          /\ UNCHANGED << err, stdout, underlying >>
       \/ \E e \in BackendErrors : BackendFailure(Raise("Exception", e))
    /\ UNCHANGED << inputVars, mainVars, uiVars, api_key, client, asmVars, arrived,
                    generated_content_parts, generated_content, result, output_length >>

\* A streamed chunk is the sequence of the texts of its parts.
Chunks == {<< >>, << "Hel" >>, << "lo, " >>, << "world" >>}
\* chunk.text of the google-genai stream: None for a chunk without parts.
ChunkText(chunk) == IF chunk = << >> THEN None ELSE Some(Join(chunk))

\* Mutant: a chunk equal to the previous one is taken for a repeat and dropped.
ApiAccumulateDedup(parts, chunk) ==
    IF chunk # << >> /\ (parts = << >> \/ parts[Len(parts)] # Join(chunk))
    THEN Append(parts, Join(chunk))
    ELSE parts
\* api.py lines 121-122.
ApiAccumulate(parts, chunk) ==
    IF chunk # << >> THEN Append(parts, ChunkText(chunk)[1]) ELSE parts
\* gemini_repo_api.py line 81: str += None raises TypeError.
NoneConcatError == Raise("TypeError", "can only concatenate str (not \"NoneType\") to str")
LegacyAccumulate(content, chunk) == content \o ChunkText(chunk)[1]
\* gemini_repo_cli.py line 205: print(part.text, end='', flush=True).
CliPrintChunk(chunk) == Write("chunk", PyStr(ChunkText(chunk)))

\* The backend delivers the next chunk and the loop body runs on it.
StreamChunk ==
    /\ pc = "streaming"
    /\ Len(arrived) < MaxChunks
    /\ \E chunk \in Chunks :
       /\ arrived' = Append(arrived, chunk)
       /\ CASE variant = "api" ->
                 /\ generated_content_parts' = ApiAccumulate(generated_content_parts, chunk)
                 /\ UNCHANGED << generated_content, err, stdout, pc, underlying >>
            [] variant = "legacy" ->
                 IF ChunkText(chunk) = None
                 THEN /\ BackendFailure(NoneConcatError)
                      /\ UNCHANGED << generated_content, generated_content_parts >>
                 ELSE /\ generated_content' = LegacyAccumulate(generated_content, chunk)
                      /\ UNCHANGED << generated_content_parts, err, stdout, pc, underlying >>
            [] OTHER ->
                 /\ stdout' = Append(stdout, CliPrintChunk(chunk))
                 /\ UNCHANGED << generated_content, generated_content_parts, err, pc,
                                 underlying >>
    /\ UNCHANGED << inputVars, mainVars, uiVars, api_key, client, asmVars, requests, result, output_length >>

\* Reading the stream fails.
StreamError ==
    /\ pc = "streaming"
    /\ \E e \in BackendErrors : BackendFailure(Raise("Exception", e))
    /\ UNCHANGED << inputVars, mainVars, uiVars, api_key, client, asmVars, genVars >>

\* The stream ends: api.py lines 125-130, gemini_repo_api.py line 86,
\* gemini_repo_cli.py line 207.
StreamEnd ==
    /\ pc = "streaming"
    /\ pc' = "succeeded"
    /\ CASE variant = "api" ->
              /\ generated_content' = Join(generated_content_parts)
              /\ output_length' = Len(Join(generated_content_parts))
              /\ result' = Some(Join(generated_content_parts))
              /\ stdout' = stdout
         [] variant = "legacy" ->
              /\ result' = Some(generated_content)
              /\ UNCHANGED << generated_content, output_length, stdout >>
         [] OTHER ->
              /\ stdout' = Append(stdout, Write("newline", "\n"))
              /\ UNCHANGED << generated_content, output_length, result >>
    /\ UNCHANGED << inputVars, mainVars, uiVars, api_key, client, asmVars, err, requests, arrived,
                    generated_content_parts, underlying >>

\* ------------------------------------------------- main of the two CLIs
\* Values of --output of cli.py.
OutputArgs == {None, Some("gen.md"), Some("out/gen.md")}
\* Messages of the errors makedirs(), open(), write() and print() raise.
OutputErrors == {"[Errno 28] No space left on device"}

\* cli.py lines 137-144: the constructor raised, main reports it and exits.
CliMain_InitFailed ==
    /\ variant = "api"
    /\ pc = "ctor_raised"
    /\ exit_code = Running
    /\ stderr' = Append(stderr,
                    IF err.type = "ValueError"
                    THEN "ERROR: Initialization failed: " \o err.msg
                    ELSE "ERROR: Unexpected error during initialization: " \o err.msg)
    /\ exit_code' = 1
    /\ UNCHANGED << inputVars, uiVars, output_arg, out_file, out_dirs, pc, api_key, client,
                    asmVars, err, genVars, stdout, underlying >>

\* Mutant: the output file is opened before the failure is reported.
CliMain_GenerationFailedTouching ==
    /\ variant = "api"
    /\ pc = "failed"
    /\ exit_code = Running
    /\ stderr' = Append(stderr, "ERROR: Failed to generate content: " \o err.msg)
    /\ exit_code' = 1
    /\ out_file' = IF Truthy(output_arg) THEN Some("") ELSE out_file
    /\ UNCHANGED << inputVars, uiVars, output_arg, out_dirs, pc, api_key, client,
                    asmVars, err, genVars, stdout, underlying >>

\* cli.py lines 167-175: generate_content raised, main reports it and exits.
CliMain_GenerationFailed ==
    /\ variant = "api"
    /\ pc = "failed"
    /\ exit_code = Running
    /\ stderr' = Append(stderr,
                    IF err.type = "FileNotFoundError"
                    THEN "ERROR: Could not read context file: " \o err.msg
                    ELSE "ERROR: Failed to generate content: " \o err.msg)
    /\ exit_code' = 1
    /\ UNCHANGED << inputVars, uiVars, output_arg, out_file, out_dirs, pc, api_key, client,
                    asmVars, err, genVars, stdout, underlying >>

\* cli.py line 178.
OutputDestination(output) == IF Truthy(output) THEN output[1] ELSE "stdout"

\* cli.py lines 195-198: the except clause of the output step.
CliMain_OutputError(e) ==
    /\ stderr' = Append(stderr, "ERROR: Failed to write output to "
                                  \o OutputDestination(output_arg) \o ": " \o e)
    /\ exit_code' = 1

\* Mutant: the content is printed as well as written to the file.
CliMain_OutputTee ==
    /\ variant = "api"
    /\ pc = "succeeded"
    /\ exit_code = Running
    /\ stdout' = Append(stdout, Write("content", result[1] \o "\n"))
    /\ out_file' = IF Truthy(output_arg) THEN result ELSE out_file
    /\ exit_code' = 0
    /\ UNCHANGED << inputVars, uiVars, output_arg, out_dirs, stderr, pc, api_key, client,
                    asmVars, err, genVars, underlying >>

\* cli.py lines 177-201: the output step after generate_content returned.
CliMain_Output ==
    /\ variant = "api"
    /\ pc = "succeeded"
    /\ exit_code = Running
    /\ IF Truthy(output_arg)
       THEN LET output_dir == Dirname(output_arg[1]) IN
            \/ \* os.makedirs raises
               /\ output_dir # ""
               /\ \E e \in OutputErrors : CliMain_OutputError(e)
               /\ UNCHANGED << out_dirs, out_file, stdout >>
            \/ \* open() raises
               /\ out_dirs' = (output_dir # "")
               /\ \E e \in OutputErrors : CliMain_OutputError(e)
               /\ UNCHANGED << out_file, stdout >>
            \/ \* open() truncated the file, write() raises
               /\ out_dirs' = (output_dir # "")
               /\ out_file' = Some("")
               /\ \E e \in OutputErrors : CliMain_OutputError(e)
               /\ stdout' = stdout
            \/ /\ out_dirs' = (output_dir # "")
               /\ out_file' = Some(result[1])
               /\ stderr' = Append(stderr, "Content successfully written to "
                                             \o output_arg[1])
               /\ exit_code' = 0
               /\ stdout' = stdout
       ELSE \/ /\ stdout' = Append(stdout, Write("content", result[1] \o "\n"))
               /\ exit_code' = 0
               /\ UNCHANGED << stderr, out_file, out_dirs >>
            \/ \* print() raises
               /\ \E e \in OutputErrors : CliMain_OutputError(e)
               /\ UNCHANGED << stdout, out_file, out_dirs >>
    /\ UNCHANGED << inputVars, uiVars, output_arg, pc, api_key, client, asmVars, err, genVars,
                    underlying >>

\* gemini_repo_cli.py: main returns (lines 185, 209 and 214) and the process
\* exits with the status of a main that returned None.
Main_Return ==
    /\ variant = "cli"
    /\ pc \in {"succeeded", "failed"}
    /\ exit_code = Running
    /\ exit_code' = 0
    /\ UNCHANGED << inputVars, uiVars, output_arg, stderr, out_file, out_dirs, pc, api_key,
                    client, asmVars, err, genVars, stdout, underlying >>

\* ------------------------------------------------------------ whole runs
RunTargets == {"out.md"}
RunPrompts == {"Summarize"}

Init ==
    /\ variant \in Variants
    /\ fs \in [Paths -> FileStates]
    /\ env \in EnvValues
    /\ api_key_arg \in (IF variant = "cli" THEN {None} ELSE ApiKeyArgs)
    /\ repo_name \in RepoNames
    /\ file_paths \in SeqsUpTo(Paths, MaxPaths)
    /\ target_file_name \in RunTargets
    /\ prompt \in RunPrompts
    /\ pc = "new"
    /\ api_key = None
    /\ client = FALSE
    /\ idx = 1
    /\ model_inputs = << >>
    /\ inputs = << >>
    /\ reads = << >>
    /\ err = NoErr
    /\ requests = 0
    /\ arrived = << >>
    /\ generated_content_parts = << >>
    /\ generated_content = ""
    /\ result = None
    /\ output_length = -1
    /\ stdout = << >>
    /\ underlying = NoErr
    /\ output_arg \in (IF variant = "api" THEN OutputArgs ELSE {None})
    /\ exit_code = Running
    /\ stderr = << >>
    /\ out_file = None
    /\ out_dirs = FALSE
    /\ ui = "none"
    /\ provider = "Gemini"
    /\ context_listbox = << >>
    /\ WindowShown

Next ==
    \/ Ctor
    \/ GenerateContent_Call
    \/ Main_Call
    \/ CreatePromptInputs_Begin
    \/ CreatePromptInputs_Read
    \/ CreatePromptInputs_Return
    \/ GenerateContent_AssemblyFailed
    \/ Main_Client
    \/ SendRequest
    \/ StreamChunk
    \/ StreamError
    \/ StreamEnd
    \/ CliMain_InitFailed
    \/ CliMain_GenerationFailed
    \/ CliMain_Output
    \/ Main_Return

Spec == Init /\ [][Next]_vars

\* ======================================================================
\* The interactive frontends
\* ======================================================================

\* qt6.py lines 74-80: the text GenerationWorker.run emits with error_signal for
\* exception e of generate_content.
WorkerErrorText(e) ==
    IF e.type = "FileNotFoundError"
    THEN "Context file not found: " \o e.msg
    ELSE "Generation failed: " \o e.msg

\* Mutant: the text of the field is taken as typed.
StripNothing(s) == s

RECURSIVE Strip(_)
\* str.strip() on the text of a field (blanks only).
Strip(s) ==
    IF s = "" THEN s
    ELSE IF SubSeq(s, 1, 1) = " " THEN Strip(SubSeq(s, 2, Len(s)))
    ELSE IF SubSeq(s, Len(s), Len(s)) = " " THEN Strip(SubSeq(s, 1, Len(s) - 1))
    ELSE s

\* The texts of the fields of the window: repo_name, target_file_name and prompt
\* hold the three required fields, api_key_arg the key field, output_arg the
\* output file field, file_paths the context file list.
UiRepoNames == {"demo", " ", ""}
\* The three required fields as the user left them: all filled, or one of
\* them empty or blank.
UiRequiredFields ==
    {<< r, "out.md", "Summarize" >> : r \in UiRepoNames}
    \cup {<< "demo", t, "Summarize" >> : t \in {"", " "}}
    \cup {<< "demo", "out.md", q >> : q \in {"", " "}}
UiKeyTexts == {Some(""), Some("arg-key")}
UiEnvValues == {None, Some("env-key")}
UiOutputTexts == {Some(""), Some("out/gen.md")}
UiFilePaths == {<< >>, << "a.txt" >>}
UiFileSystems ==
    {[p \in Paths |-> IF p = "a.txt" THEN f ELSE File("")] :
        f \in {File("hello"), Missing, Unreadable}}
\* What a successful generate_content returns.
UiContents == {"Hello, world"}
Providers(frontend) == IF frontend = "qt" THEN {"Gemini", "Ollama"} ELSE {"gemini", "ollama"}

Dialog(kind, text) == [kind |-> kind, text |-> text]
Signal(sig, text, w) == [sig |-> sig, text |-> text, worker |-> w]

\* What constructing OllamaRepoAPI can raise, NoErr when it returns.
OllamaCtorOutcomes ==
    {NoErr, Raise("ValueError", "model not found"), Raise("Exception", "connection refused")}

\* What constructing the selected provider with key text `key` can raise, NoErr
\* when it returns the instance.
ProviderCtorOutcomes(selected, key) ==
    IF selected \in {"Gemini", "gemini"}
    THEN IF ~Truthy(ResolveApiKey(key, env))
         THEN {MissingKeyError("api")}
         ELSE {NoErr} \cup {ClientInitError("api", e) : e \in ClientErrors}
    ELSE OllamaCtorOutcomes

\* Index of the first path of ps that api.py's _read_file_content raises on, 0
\* if it reads them all.
FirstUnread(ps) ==
    IF \E i \in 1..Len(ps) : ApiReadFileContent(ps[i]).exc # NoErr
    THEN CHOOSE i \in 1..Len(ps) :
            /\ ApiReadFileContent(ps[i]).exc # NoErr
            /\ \A j \in 1..(i - 1) : ApiReadFileContent(ps[j]).exc = NoErr
    ELSE 0

\* What a call of the provider's generate_content on the list ps can do:
\* raise exc, or return content.
GenerateOutcomes(ps) ==
    IF FirstUnread(ps) > 0
    THEN {[exc |-> GenerationError("api", ApiReadFileContent(ps[FirstUnread(ps)]).exc),
           content |-> ""]}
    ELSE {[exc |-> NoErr, content |-> c] : c \in UiContents}
         \cup {[exc |-> GenerationError("api", Raise("Exception", e)), content |-> ""] :
                  e \in BackendErrors}

\* The variables of the runs of the command lines, which no window touches.
runVars == << pc, api_key, client, asmVars, err, genVars, stdout, underlying,
              exit_code, stderr >>

\* What no handler of a window and no worker changes.
fixedVars == << runVars, output_arg, ui, provider >>
\* The fields of the window other than the context file list.
fieldVars == << variant, fs, env, api_key_arg, repo_name, target_file_name, prompt >>

\* ---------------------------------------------------------------- qt6.py
\* Mutant: the button stays as it is.
ResetGenerateButtonNever == button_enabled' = button_enabled
\* qt6.py lines 348-350.
ResetGenerateButton == button_enabled' = TRUE

\* qt6.py lines 47-54 and 346: a GenerationWorker as constructed and started.
NewWorker(paths) ==
    [st |-> "started", runs |-> 0, signals |-> << >>, file_paths |-> paths]

\* QThread.isRunning() of worker w.
IsRunning(w) == workers[w].st \in {"started", "generating", "emitted"}

\* qt6.py line 316: gemini_api_key_edit.text().strip() or None.
KeyFieldValue == PyOr(Some(Strip(api_key_arg[1])), None)

\* Mutant: the worker is created and started before the provider is
\* constructed.
handle_generate_eager ==
    /\ ui = "qt"
    /\ window_open
    /\ ui_pc = "loop"
    /\ button_enabled
    /\ clicks + list_ops < MaxClicks
    /\ clicks' = clicks + 1
    /\ ctor_calls' = ctor_calls + 1
    /\ output_display' = << "Attempting to generate content...\n---" >>
    /\ workers' = Append(workers, NewWorker(file_paths))
    /\ generation_worker' = Len(workers) + 1
    /\ \E exc \in ProviderCtorOutcomes(provider, KeyFieldValue) :
          /\ init_error' = exc
          /\ IF exc # NoErr
             THEN /\ dialogs' = Append(dialogs, Dialog("critical",
                                  "Failed to initialize " \o provider \o " API: " \o exc.msg))
                  /\ ResetGenerateButton
             ELSE /\ button_enabled' = FALSE
                  /\ dialogs' = dialogs
    /\ UNCHANGED << fixedVars, inputVars, out_file, out_dirs, ui_pc, events, call_threads,
                    window_open, reply, context_listbox, list_ops >>

\* Mutant: the worker of the previous click is started again.
handle_generate_reusing ==
    /\ ui = "qt"
    /\ window_open
    /\ ui_pc = "loop"
    /\ button_enabled
    /\ clicks + list_ops < MaxClicks
    /\ clicks' = clicks + 1
    /\ ctor_calls' = ctor_calls + 1
    /\ output_display' = << "Attempting to generate content...\n---" >>
    /\ init_error' = NoErr
    /\ IF generation_worker # 0
       THEN /\ workers' = [workers EXCEPT ![generation_worker].st = "started"]
            /\ generation_worker' = generation_worker
       ELSE /\ workers' = Append(workers, NewWorker(file_paths))
            /\ generation_worker' = Len(workers) + 1
    /\ button_enabled' = FALSE
    /\ UNCHANGED << fixedVars, inputVars, out_file, out_dirs, ui_pc, events, call_threads,
                    dialogs, window_open, reply, context_listbox, list_ops >>

\* qt6.py lines 287-346: the slot of the Generate button's clicked signal.
handle_generate ==
    /\ ui = "qt"
    /\ window_open
    /\ ui_pc = "loop"
    /\ button_enabled
    /\ clicks + list_ops < MaxClicks
    /\ clicks' = clicks + 1
    /\ output_display' = << "Attempting to generate content...\n---" >>
    /\ IF Strip(repo_name) = "" \/ Strip(target_file_name) = "" \/ Strip(prompt) = ""
       THEN \* lines 302-310
            /\ dialogs' = Append(dialogs, Dialog("warning",
                   IF Strip(repo_name) = "" THEN "Repository Name is required."
                   ELSE IF Strip(target_file_name) = ""
                        THEN "Target File Name (for prompt context) is required."
                        ELSE "Prompt is required."))
            /\ ResetGenerateButton
            /\ init_error' = NoErr
            /\ UNCHANGED << workers, generation_worker, ctor_calls >>
       ELSE \E exc \in ProviderCtorOutcomes(provider, KeyFieldValue) :
            /\ init_error' = exc
            /\ ctor_calls' = ctor_calls + 1
            /\ IF exc # NoErr
               THEN \* lines 326-333
                    /\ dialogs' = Append(dialogs, Dialog("critical",
                           IF exc.type = "ValueError"
                           THEN "Failed to initialize " \o provider \o " API: " \o exc.msg
                           ELSE "An unexpected error occurred initializing " \o provider
                                \o " API: " \o exc.msg))
                    /\ ResetGenerateButton
                    /\ UNCHANGED << workers, generation_worker >>
               ELSE \* lines 335-346
                    /\ workers' = Append(workers, NewWorker(file_paths))
                    /\ generation_worker' = Len(workers) + 1
                    /\ button_enabled' = FALSE
                    /\ dialogs' = dialogs
    /\ UNCHANGED << fixedVars, inputVars, out_file, out_dirs, ui_pc, events, call_threads,
                    window_open, reply, context_listbox, list_ops >>

\* qt6.py lines 317-321: the class of the provider object and the text of
\* its model field, whose default is defined outside these sources.
ApiClassName == provider \o "RepoAPI"
ModelFieldText == IF provider = "Gemini" THEN "gemini-model" ELSE "ollama-model"

\* qt6.py line 58: the text of started_signal.
StartedText ==
    "Generating content with " \o ApiClassName \o " (model: " \o ModelFieldText
        \o ") for target '" \o Strip(target_file_name) \o "'..."

\* qt6.py lines 56-66: the thread of worker w enters run, emits started_signal
\* and calls generate_content.
run_started(w) ==
    /\ window_open
    /\ workers[w].st = "started"
    /\ workers' = [workers EXCEPT ![w].st = "generating",
                                  ![w].runs = @ + 1,
                                  ![w].signals = Append(@, "started")]
    /\ events' = Append(events, Signal("started",
                     StartedText, w))
    /\ call_threads' = call_threads \cup {"worker"}
    /\ UNCHANGED << fixedVars, inputVars, out_file, out_dirs, ui_pc, button_enabled,
                    generation_worker, dialogs, output_display, clicks, init_error,
                    window_open, reply, ctor_calls, context_listbox, list_ops >>

\* Mutant: the worker reports an error after it reported success.
run_emit_both(w) ==
    /\ window_open
    /\ workers[w].st = "generating"
    /\ workers' = [workers EXCEPT ![w].st = "emitted",
                                  ![w].signals = @ \o << "finished", "error" >>]
    /\ events' = events \o << Signal("finished", "", w), Signal("error", "", w) >>
    /\ UNCHANGED << fixedVars, inputVars, out_file, out_dirs, ui_pc, button_enabled,
                    generation_worker, dialogs, output_display, clicks, init_error,
                    call_threads, window_open, reply, ctor_calls, context_listbox,
                    list_ops >>

\* qt6.py lines 67-80: generate_content returns or raises in worker w, which
\* emits finished_signal or error_signal.
run_emit(w) ==
    /\ window_open
    /\ workers[w].st = "generating"
    /\ \E o \in GenerateOutcomes(workers[w].file_paths) :
          /\ workers' = [workers EXCEPT
                           ![w].st = "emitted",
                           ![w].signals = Append(@, IF o.exc = NoErr THEN "finished"
                                                                      ELSE "error")]
          /\ events' = Append(events,
                          IF o.exc = NoErr
                          THEN Signal("finished", o.content, w)
                          ELSE Signal("error", WorkerErrorText(o.exc), w))
    /\ UNCHANGED << fixedVars, inputVars, out_file, out_dirs, ui_pc, button_enabled,
                    generation_worker, dialogs, output_display, clicks, init_error,
                    call_threads, window_open, reply, ctor_calls, context_listbox,
                    list_ops >>

\* qt6.py lines 73 and 80: after the signal is emitted, run of worker w
\* returns and its thread ends.
run_return(w) ==
    /\ window_open
    /\ workers[w].st = "emitted"
    /\ workers' = [workers EXCEPT ![w].st = "returned"]
    /\ UNCHANGED << fixedVars, inputVars, out_file, out_dirs, ui_pc, button_enabled,
                    generation_worker, events, dialogs, output_display, clicks,
                    init_error, call_threads, window_open, reply, ctor_calls,
                    context_listbox, list_ops >>

\* The UI thread takes the next queued signal of kind sig.
Delivered(sig) ==
    /\ ui = "qt"
    /\ window_open
    /\ ui_pc = "loop"
    /\ events # << >>
    /\ Head(events).sig = sig
    /\ events' = Tail(events)

\* qt6.py lines 352-354.
on_generation_started ==
    /\ Delivered("started")
    /\ output_display' = Append(output_display, Head(events).text \o "\n---")
    /\ UNCHANGED << fixedVars, inputVars, out_file, out_dirs, ui_pc, button_enabled,
                    workers, generation_worker, dialogs, clicks, init_error,
                    call_threads, window_open, reply, ctor_calls, context_listbox,
                    list_ops >>

\* qt6.py lines 356-379.
on_generation_finished ==
    /\ Delivered("finished")
    /\ LET content == Head(events).text
           output_file_path == Strip(output_arg[1])
           output_dir == Dirname(output_file_path)
       IN
       /\ output_display' = output_display \o << "\n--- Generation Complete ---\n", content >>
       /\ IF output_file_path # ""
          THEN \/ \* os.makedirs raises
                  /\ output_dir # ""
                  /\ \E e \in OutputErrors :
                        dialogs' = Append(dialogs, Dialog("warning",
                            "Failed to save output to " \o output_file_path \o ":\n" \o e))
                  /\ UNCHANGED << out_dirs, out_file >>
               \/ \* open() raises
                  /\ out_dirs' = (out_dirs \/ output_dir # "")
                  /\ \E e \in OutputErrors :
                        dialogs' = Append(dialogs, Dialog("warning",
                            "Failed to save output to " \o output_file_path \o ":\n" \o e))
                  /\ out_file' = out_file
               \/ \* open() truncated the file, write() raises
                  /\ out_dirs' = (out_dirs \/ output_dir # "")
                  /\ out_file' = Some("")
                  /\ \E e \in OutputErrors :
                        dialogs' = Append(dialogs, Dialog("warning",
                            "Failed to save output to " \o output_file_path \o ":\n" \o e))
               \/ /\ out_dirs' = (out_dirs \/ output_dir # "")
                  /\ out_file' = Some(content)
                  /\ dialogs' = Append(dialogs, Dialog("information",
                        "Generated content successfully saved to:\n" \o output_file_path))
          ELSE UNCHANGED << out_dirs, out_file, dialogs >>
    /\ ResetGenerateButton
    /\ UNCHANGED << fixedVars, inputVars, ui_pc, workers, generation_worker, clicks,
                    init_error, call_threads, window_open, reply, ctor_calls,
                    context_listbox, list_ops >>

\* Mutant: the handler also empties the context file list.
on_generation_error_clearing ==
    /\ Delivered("error")
    /\ output_display' = Append(output_display,
                              "\n--- GENERATION ERROR ---\n" \o Head(events).text)
    /\ dialogs' = Append(dialogs, Dialog("critical", Head(events).text))
    /\ ResetGenerateButton
    /\ file_paths' = << >>
    /\ context_listbox' = << >>
    /\ UNCHANGED << fixedVars, fieldVars, out_file, out_dirs, ui_pc, workers,
                    generation_worker, clicks, init_error, call_threads, window_open,
                    reply, ctor_calls, list_ops >>

\* qt6.py lines 381-385.
on_generation_error ==
    /\ Delivered("error")
    /\ output_display' = Append(output_display,
                              "\n--- GENERATION ERROR ---\n" \o Head(events).text)
    /\ dialogs' = Append(dialogs, Dialog("critical", Head(events).text))
    /\ ResetGenerateButton
    /\ UNCHANGED << fixedVars, inputVars, out_file, out_dirs, ui_pc, workers,
                    generation_worker, clicks, init_error, call_threads, window_open,
                    reply, ctor_calls, context_listbox, list_ops >>

RECURSIVE AddNew(_, _)
\* qt6.py lines 256-259: each selected file is added unless the list has it.
AddNew(list, files) ==
    IF files = << >> THEN list
    ELSE AddNew(IF \E i \in 1..Len(list) : list[i] = Head(files)
                THEN list ELSE Append(list, Head(files)),
                Tail(files))

\* The selections the file dialog of qt6.py can return; << >> when cancelled.
FileSelections == {<< >>, << "a.txt" >>, << "b.txt" >>, << "a.txt", "b.txt" >>}

\* qt6.py lines 251-260.
add_context_files ==
    /\ ui = "qt"
    /\ window_open
    /\ ui_pc = "loop"
    /\ clicks + list_ops < MaxClicks
    /\ list_ops' = list_ops + 1
    /\ \E files \in FileSelections :
          /\ file_paths' = AddNew(file_paths, files)
          /\ context_listbox' = AddNew(file_paths, files)
    /\ UNCHANGED << fixedVars, fieldVars, out_file, out_dirs, ui_pc, button_enabled,
                    workers, generation_worker, events, dialogs, output_display, clicks,
                    init_error, call_threads, window_open, reply, ctor_calls >>

\* The list without its element at index i.
RemoveAt(list, i) == SubSeq(list, 1, i - 1) \o SubSeq(list, i + 1, Len(list))

\* qt6.py lines 262-269: the selected item, if there is one, is taken out.
take_context_file ==
    /\ ui = "qt"
    /\ window_open
    /\ ui_pc = "loop"
    /\ clicks + list_ops < MaxClicks
    /\ list_ops' = list_ops + 1
    /\ \E selected \in 0..Len(file_paths) :
          IF selected = 0
          THEN UNCHANGED << file_paths, context_listbox >>
          ELSE /\ file_paths' = RemoveAt(file_paths, selected)
               /\ context_listbox' = RemoveAt(file_paths, selected)
    /\ UNCHANGED << fixedVars, fieldVars, out_file, out_dirs, ui_pc, button_enabled,
                    workers, generation_worker, events, dialogs, output_display, clicks,
                    init_error, call_threads, window_open, reply, ctor_calls >>

\* qt6.py lines 392-408.
closeEvent ==
    /\ ui = "qt"
    /\ window_open
    /\ ui_pc = "loop"
    /\ IF generation_worker # 0 /\ IsRunning(generation_worker)
       THEN \/ \* Yes: terminate(), wait(), accept()
               /\ reply' = "Yes"
               /\ workers' = [workers EXCEPT ![generation_worker].st = "terminated"]
               /\ window_open' = FALSE
            \/ \* No: ignore()
               /\ reply' = "No"
               /\ UNCHANGED << workers, window_open >>
       ELSE /\ window_open' = FALSE
            /\ UNCHANGED << workers, reply >>
    /\ UNCHANGED << fixedVars, inputVars, out_file, out_dirs, ui_pc, button_enabled,
                    generation_worker, events, dialogs, output_display, clicks,
                    init_error, call_threads, ctor_calls, context_listbox, list_ops >>

\* ------------------------------------------------------------ tkinter.py
\* The answers of tkinter.py's file dialog; "" when cancelled.
FileAnswers == Paths \cup {""}

\* tkinter.py lines 121-125.
add_context_file ==
    /\ ui = "tk"
    /\ window_open
    /\ ui_pc = "loop"
    /\ clicks + list_ops < MaxClicks
    /\ list_ops' = list_ops + 1
    /\ \E filepath \in FileAnswers :
          IF filepath # ""
          THEN /\ file_paths' = Append(file_paths, filepath)
               /\ context_listbox' = Append(context_listbox, filepath)
          ELSE UNCHANGED << file_paths, context_listbox >>
    /\ UNCHANGED << fixedVars, fieldVars, out_file, out_dirs, ui_pc, button_enabled,
                    workers, generation_worker, events, dialogs, output_display, clicks,
                    init_error, call_threads, window_open, reply, ctor_calls >>

\* Mutant: the path is deleted from the list box only.
remove_context_file_shown_only ==
    /\ ui = "tk"
    /\ window_open
    /\ ui_pc = "loop"
    /\ clicks + list_ops < MaxClicks
    /\ list_ops' = list_ops + 1
    /\ \E index \in 1..Len(context_listbox) :
          /\ context_listbox' = RemoveAt(context_listbox, index)
          /\ UNCHANGED << file_paths, dialogs >>
    /\ UNCHANGED << fixedVars, fieldVars, out_file, out_dirs, ui_pc, button_enabled,
                    workers, generation_worker, events, output_display, clicks,
                    init_error, call_threads, window_open, reply, ctor_calls >>

\* tkinter.py lines 127-133: index 0 stands for an empty curselection().
remove_context_file ==
    /\ ui = "tk"
    /\ window_open
    /\ ui_pc = "loop"
    /\ clicks + list_ops < MaxClicks
    /\ list_ops' = list_ops + 1
    /\ \E index \in 0..Len(context_listbox) :
          IF index = 0 \/ index > Len(file_paths)
          THEN \* IndexError
               /\ dialogs' = Append(dialogs, Dialog("info", "No file selected to remove."))
               /\ UNCHANGED << file_paths, context_listbox >>
          ELSE /\ file_paths' = RemoveAt(file_paths, index)
               /\ context_listbox' = RemoveAt(context_listbox, index)
               /\ dialogs' = dialogs
    /\ UNCHANGED << fixedVars, fieldVars, out_file, out_dirs, ui_pc, button_enabled,
                    workers, generation_worker, events, output_display, clicks,
                    init_error, call_threads, window_open, reply, ctor_calls >>

\* tkinter.py lines 140-184: the command of the Generate button, up to the
\* call of generate_content.
generate_content_clicked ==
    /\ ui = "tk"
    /\ window_open
    /\ ui_pc = "loop"
    /\ clicks + list_ops < MaxClicks
    /\ clicks' = clicks + 1
    /\ IF repo_name = "" \/ target_file_name = "" \/ prompt = ""
       THEN \* lines 154-156
            /\ dialogs' = Append(dialogs, Dialog("error",
                              "Repo Name, Target File, and Prompt are required."))
            /\ init_error' = NoErr
            /\ UNCHANGED << ui_pc, output_display, call_threads, ctor_calls >>
       ELSE /\ output_display' = << >>
            /\ ctor_calls' = ctor_calls + 1
            /\ \E exc \in ProviderCtorOutcomes(provider, api_key_arg) :
                  /\ init_error' = exc
                  /\ IF exc # NoErr
                     THEN \* lines 176-179
                          /\ dialogs' = Append(dialogs, Dialog("error",
                                            "API Initialization Failed: " \o exc.msg))
                          /\ UNCHANGED << ui_pc, call_threads >>
                     ELSE \* line 184: generate_content is entered
                          /\ ui_pc' = "generating"
                          /\ call_threads' = call_threads \cup {"ui"}
                          /\ dialogs' = dialogs
    /\ UNCHANGED << fixedVars, inputVars, out_file, out_dirs, button_enabled, workers,
                    generation_worker, events, window_open, reply, context_listbox,
                    list_ops >>

\* tkinter.py lines 184-212: generate_content returns or raises and the
\* command finishes.
generate_content_done ==
    /\ ui = "tk"
    /\ ui_pc = "generating"
    /\ ui_pc' = "loop"
    /\ \E o \in GenerateOutcomes(file_paths) :
          IF o.exc # NoErr
          THEN /\ dialogs' = Append(dialogs, Dialog("error",
                                 "Content Generation Failed: " \o o.exc.msg))
               /\ UNCHANGED << output_display, out_file >>
          ELSE /\ output_display' = Append(output_display, o.content)
               /\ IF output_arg[1] # ""
                  THEN \/ \* open() raises
                          /\ \E e \in OutputErrors :
                                dialogs' = Append(dialogs, Dialog("error",
                                              "Failed to write output to file: " \o e))
                          /\ out_file' = out_file
                       \/ \* write() raises
                          /\ \E e \in OutputErrors :
                                dialogs' = Append(dialogs, Dialog("error",
                                              "Failed to write output to file: " \o e))
                          /\ out_file' = Some("")
                       \/ /\ out_file' = Some(o.content)
                          /\ dialogs' = Append(dialogs, Dialog("info",
                                            "Content written to " \o output_arg[1]))
                  ELSE UNCHANGED << out_file, dialogs >>
    /\ UNCHANGED << fixedVars, inputVars, out_dirs, button_enabled, workers,
                    generation_worker, events, clicks, init_error, call_threads,
                    window_open, reply, ctor_calls, context_listbox, list_ops >>

\* ------------------------------------------------------- a window's run
InitUI ==
    /\ ui \in {"qt", "tk"}
    /\ provider \in Providers(ui)
    /\ WindowShown
    /\ variant = "api"
    /\ fs \in UiFileSystems
    /\ env \in UiEnvValues
    /\ api_key_arg \in UiKeyTexts
    /\ \E fields \in UiRequiredFields :
          /\ repo_name = fields[1]
          /\ target_file_name = fields[2]
          /\ prompt = fields[3]
    /\ file_paths \in UiFilePaths
    /\ context_listbox = file_paths
    /\ output_arg \in UiOutputTexts
    /\ pc = "new"
    /\ api_key = None
    /\ client = FALSE
    /\ idx = 1
    /\ model_inputs = << >>
    /\ inputs = << >>
    /\ reads = << >>
    /\ err = NoErr
    /\ requests = 0
    /\ arrived = << >>
    /\ generated_content_parts = << >>
    /\ generated_content = ""
    /\ result = None
    /\ output_length = -1
    /\ stdout = << >>
    /\ underlying = NoErr
    /\ exit_code = Running
    /\ stderr = << >>
    /\ out_file = None
    /\ out_dirs = FALSE

\* The steps of the worker threads.
RunStarted == \E w \in 1..Len(workers) : run_started(w)
RunEmit == \E w \in 1..Len(workers) : run_emit(w)
RunReturn == \E w \in 1..Len(workers) : run_return(w)

NextUI ==
    \/ handle_generate
    \/ RunStarted
    \/ RunEmit
    \/ RunReturn
    \/ on_generation_started
    \/ on_generation_finished
    \/ on_generation_error
    \/ add_context_files
    \/ take_context_file
    \/ closeEvent
    \/ add_context_file
    \/ remove_context_file
    \/ generate_content_clicked
    \/ generate_content_done

SpecUI == InitUI /\ [][NextUI]_vars

\* A step of a worker thread, or the delivery of a queued signal.
Progress ==
    \/ RunStarted
    \/ RunEmit
    \/ RunReturn
    \/ on_generation_started
    \/ on_generation_finished
    \/ on_generation_error

\* The worker threads run, and the event loop delivers the queued signals:
\* while there is such a step to take, one is taken.
FairnessUI == WF_vars(Progress)

SpecUIFair == SpecUI /\ FairnessUI

\* ======================================================================
\* Properties of the assemblers (checked under SpecAssemble)
\* ======================================================================

\* The wire format as spec.md section 6 words it, spelled out on its own.
WireRepoTag(r) == "⫻const:repo_name\n" \o r
WireContextFile(p, c) == "⫻context/file:" \o p \o "\n" \o c
WireTargetDirective(t) == "Generate content for the file: " \o t \o "\n"
\* The directive the two older assemblers end with.
ShortTargetDirective(t) == "Generate " \o t \o "\n"

\* The assembler has returned its list to the caller.
Returned == pc = "assembled"
\* The text segments of the list, whatever its nesting.
PromptSegments == IF Strict(variant) THEN model_inputs ELSE Flatten(inputs)
\* Number of top-level elements of the returned list.
PromptLen == IF Strict(variant) THEN Len(model_inputs) ELSE Len(inputs)

IsFile(p) == fs[p].st = "file"
Exists(p) == fs[p].st # "missing"

RECURSIVE WireContextOf(_)
\* One ContextFile segment per readable path of ps, in order.
WireContextOf(ps) ==
    IF ps = << >> THEN << >>
    ELSE (IF IsFile(Head(ps))
          THEN << WireContextFile(Head(ps), fs[Head(ps)].content) >>
          ELSE << >>) \o WireContextOf(Tail(ps))

KindOf(seg) ==
    CASE StartsWith(seg, "⫻const:repo_name\n") -> "RepoTag"
      [] StartsWith(seg, "⫻context/file:") -> "ContextFile"
      [] StartsWith(seg, "Generate ") /\ EndsWith(seg, "\n") -> "TargetDirective"
      [] OTHER -> "Instruction"

\* The ContextFile segments of the prompt, in order.
ContextSegments == SelectSeq(PromptSegments, LAMBDA s : KindOf(s) = "ContextFile")

\* segs[k] is the segment of path ps[f[k]] for a strictly increasing f.
InCallerOrder(segs, ps) ==
    \E f \in [1..Len(segs) -> 1..Len(ps)] :
        /\ \A j, k \in 1..Len(segs) : j < k => f[j] < f[k]
        /\ \A k \in 1..Len(segs) : StartsWith(segs[k], "⫻context/file:" \o ps[f[k]] \o "\n")

\* C1: every returned prompt has its parts in the order Instruction, RepoTag,
\* the ContextFile parts in the relative order of the caller's paths, then
\* TargetDirective, in all three assemblers.
C1_PartOrder ==
    Returned =>
        LET segs == PromptSegments
            n == Len(segs) IN
        /\ n >= 3
        /\ KindOf(segs[1]) = "Instruction" /\ segs[1] = prompt
        /\ KindOf(segs[2]) = "RepoTag"
        /\ \A i \in 3..(n - 1) : KindOf(segs[i]) = "ContextFile"
        /\ KindOf(segs[n]) = "TargetDirective"
        /\ InCallerOrder(SubSeq(segs, 3, n - 1), file_paths)

C1_Witness ==
    /\ Returned
    /\ Len(PromptSegments) = 5
    /\ file_paths[1] # file_paths[2]

C3_OnePartPerPath ==
    (Returned /\ file_paths # << >> /\ \A i \in 1..Len(file_paths) : IsFile(file_paths[i]))
        => ContextSegments = [i \in 1..Len(file_paths) |->
                                 WireContextFile(file_paths[i], fs[file_paths[i]].content)]

\* Index of the first missing path of file_paths, 0 when none is missing.
FirstMissing ==
    IF \E i \in 1..Len(file_paths) : ~Exists(file_paths[i])
    THEN CHOOSE i \in 1..Len(file_paths) :
            /\ ~Exists(file_paths[i])
            /\ \A j \in 1..(i - 1) : Exists(file_paths[j])
    ELSE 0

AssemblerDone == pc \in {"assembled", "asm_raised"}

StrictFailsAtFirstMissing ==
    /\ pc = "asm_raised"
    /\ err = Raise("FileNotFoundError",
                   "Context file not found: " \o file_paths[FirstMissing])
    /\ model_inputs = << >>
    /\ reads = SubSeq(file_paths, 1, FirstMissing)

\* C4 as claimed: with a missing path, strict assembly fails with
\* FileNotFoundError naming the first missing path, returns no list and reads
\* nothing after that path.
C4_AsClaimed ==
    (Strict(variant) /\ AssemblerDone /\ FirstMissing > 0) => StrictFailsAtFirstMissing

\* C4 amended: the same, when every path before the first missing one can be
\* read; at no time does strict assembly read past the first missing path.
C4_StrictFailFast ==
    /\ (Strict(variant) /\ FirstMissing > 0) => Len(reads) <= FirstMissing
    /\ (/\ Strict(variant) /\ AssemblerDone /\ FirstMissing > 0
        /\ \A j \in 1..(FirstMissing - 1) : IsFile(file_paths[j]))
           => StrictFailsAtFirstMissing

C4_Witness ==
    /\ Strict(variant)
    /\ pc = "asm_raised"
    /\ Len(file_paths) = 2
    /\ FirstMissing = 1
    /\ reads = << file_paths[1] >>

\* C5 as claimed: best-effort assembly never fails and its ContextFile parts
\* are exactly those of the supplied paths that exist (stated for file systems
\* in which every existing path can be read).
C5_OmitsExactlyMissing ==
    (~Strict(variant) /\ \A i \in 1..Len(file_paths) : fs[file_paths[i]].st # "unreadable")
        => /\ pc # "asm_raised"
           /\ Returned => ContextSegments = WireContextOf(file_paths)

\* C6: whenever an assembler returns, the last part is the target directive
\* for target_file_name, with zero context files and with every path skipped.
C6_TargetLast ==
    Returned =>
        IF Strict(variant)
        THEN /\ Len(model_inputs) >= 3
             /\ model_inputs[Len(model_inputs)] = WireTargetDirective(target_file_name)
        ELSE /\ Len(inputs) >= 2
             /\ inputs[Len(inputs)] = << ShortTargetDirective(target_file_name) >>

C6_Witness ==
    /\ Returned
    /\ ~Strict(variant)
    /\ Len(file_paths) = 2
    /\ Len(inputs) = 2

\* C7: at every moment each ContextFile part of the list is the part of a path
\* whose read succeeded, with the content read; a path whose read failed has
\* no part.
C7_OnlyReadFiles ==
    /\ \A i \in 1..Len(ContextSegments) :
          \E k \in 1..Len(reads) :
              /\ IsFile(reads[k])
              /\ ContextSegments[i] = WireContextFile(reads[k], fs[reads[k]].content)
    /\ \A p \in Paths :
          ~IsFile(p) =>
              \A i \in 1..Len(PromptSegments) :
                  ~StartsWith(PromptSegments[i], "⫻context/file:" \o p \o "\n")

C7_Witness ==
    /\ Returned
    /\ Len(reads) = 2
    /\ ~IsFile(reads[1])
    /\ IsFile(reads[2])
    /\ Len(ContextSegments) = 1

\* ======================================================================
\* Properties of construction and generation (checked under Spec)
\* ======================================================================

\* No explicit credential was passed and the environment supplies none.
NoCredential == ~Truthy(api_key_arg) /\ ~Truthy(env)

\* C8: with no explicit credential and no GEMINI_API_KEY, construction fails
\* with ValueError, the standalone CLI's check prints its error and returns,
\* and in that run no client is constructed and no backend request is issued.
C8_MissingCredential ==
    NoCredential =>
        /\ client = FALSE
        /\ requests = 0
        /\ pc \notin {"constructed", "client_ready", "streaming", "succeeded"}
        /\ (variant \in {"api", "legacy"} /\ pc # "new") =>
               /\ pc = "ctor_raised"
               /\ err.type = "ValueError"
        /\ (variant = "cli" /\ pc = "failed") =>
               stdout[Len(stdout)] =
                   [site |-> "error",
                    text |-> "Error: GEMINI_API_KEY environment variable not set.\n"]

C8_Witness ==
    /\ api_key_arg = None
    /\ env = None
    /\ variant = "api"
    /\ pc = "ctor_raised"
    /\ err.type = "ValueError"

RECURSIVE ConcatTexts(_)
\* The texts of the parts of the chunks, concatenated in arrival order.
ConcatTexts(chunks) ==
    IF chunks = << >> THEN ""
    ELSE (IF Head(chunks) = << >> THEN "" ELSE Head(chunks)[1]) \o ConcatTexts(Tail(chunks))

\* C9: a generate_content that returns, returns the concatenation of the text
\* of all chunks in arrival order, and api.py reports its character length.
C9_ConcatInOrder ==
    (pc = "succeeded" /\ variant \in {"api", "legacy"}) =>
        /\ result = << ConcatTexts(arrived) >>
        /\ variant = "api" => output_length = Len(ConcatTexts(arrived))
        /\ arrived = << << "Hel" >>, << "lo, " >>, << "world" >> >> =>
               /\ result = << "Hello, world" >>
               /\ variant = "api" => output_length = 12

C9_Witness ==
    /\ pc = "succeeded"
    /\ variant = "api"
    /\ arrived = << << "Hel" >>, << "lo, " >>, << "world" >> >>
    /\ result = << "Hello, world" >>
    /\ output_length = 12

RECURSIVE ApiGenerated(_, _)
\* What api.py's generate_content returns for a chunk sequence: its loop run
\* over the chunks from the accumulator `parts`, then joined.
ApiGenerated(parts, chunks) ==
    IF chunks = << >> THEN Join(parts)
    ELSE ApiGenerated(ApiAccumulate(parts, Head(chunks)), Tail(chunks))

\* What the standalone CLI's loop wrote for the chunks, in order.
StreamedText ==
    Join([i \in 1..Len(SelectSeq(stdout, LAMBDA w : w.site = "chunk")) |->
             SelectSeq(stdout, LAMBDA w : w.site = "chunk")[i].text])

\* C10 as claimed: for the same chunk sequence, what the standalone CLI's
\* per-chunk loop delivered, concatenated, equals the string generate_content
\* of the API class returns.
C10_StreamingEquivalence ==
    (variant = "cli" /\ pc = "succeeded") =>
        StreamedText = ApiGenerated(<< >>, arrived)

\* ======================================================================
\* Properties of the runs of generate_content (checked under Spec)
\* ======================================================================

\* The run is one of generate_content of a GeminiRepoAPI class.
InClass == variant \in {"api", "legacy"}

\* The state of spec.md's state machine a position of the run belongs to.
Phase(p) ==
    CASE p \in {"new", "constructed", "ctor_raised"} -> "Idle"
      [] p \in {"assemble", "reading", "asm_raised", "assembled"} -> "Assembling"
      [] p = "streaming" -> "Streaming"
      [] p = "succeeded" -> "Succeeded"
      [] p = "failed" -> "Failed"
      [] OTHER -> "Other"

PhaseSteps ==
    { << "Idle", "Assembling" >>, << "Assembling", "Streaming" >>,
      << "Assembling", "Failed" >>, << "Streaming", "Succeeded" >>,
      << "Streaming", "Failed" >> }

\* The assembler has read every path and returned a list that ends with the
\* target directive.
PromptComplete ==
    /\ pc = "assembled"
    /\ reads = file_paths
    /\ PromptLen >= 2
    /\ PromptSegments[Len(PromptSegments)] =
          (IF Strict(variant) THEN WireTargetDirective(target_file_name)
                              ELSE ShortTargetDirective(target_file_name))

C11_Step ==
    InClass =>
        /\ Phase(pc') # Phase(pc) => << Phase(pc), Phase(pc') >> \in PhaseSteps
        /\ requests' # requests => PromptComplete
        /\ pc \in {"succeeded", "failed"} => (pc' = pc /\ result' = result /\ err' = err)

C11_Ends ==
    InClass =>
        /\ pc = "succeeded" => (result # None /\ err = NoErr)
        /\ pc = "failed" => (result = None /\ err # NoErr)
        /\ pc \notin {"succeeded", "failed"} => result = None
        /\ Phase(pc) \in {"Assembling", "Streaming"} => ENABLED Next

\* C11: a run of generate_content moves Idle -> Assembling -> Streaming ->
\* Succeeded or Failed (Assembling -> Failed when assembly or the request
\* fails): the backend request is issued only from a completely assembled
\* prompt, no later state is entered except through Assembling, a run that has
\* not ended can take a step, and a run that ended has either returned a
\* string (Succeeded) or raised an error (Failed), never both, and stays there.
C11_StateMachine == [] C11_Ends /\ [][C11_Step]_vars

C11_Witness ==
    /\ variant = "legacy"
    /\ pc = "succeeded"
    /\ reads = file_paths
    /\ Len(file_paths) = 2
    /\ requests = 1
    /\ result # None

\* What a caller of api.py's generate_content sees when a context file is
\* missing: FileNotFoundError naming the first missing path, no request sent,
\* and cli.py's main reporting it as a context file error with exit status 1.
FailsWithContextFileNotFound ==
    /\ requests = 0
    /\ pc \notin {"assembled", "streaming", "succeeded"}
    /\ pc = "failed" =>
          /\ err.type = "FileNotFoundError"
          /\ Contains(err.msg, file_paths[FirstMissing])
          /\ result = None
    /\ (pc = "failed" /\ exit_code # Running) =>
          /\ exit_code = 1
          /\ stderr = << "ERROR: Could not read context file: Context file not found: "
                          \o file_paths[FirstMissing] >>
          /\ stdout = << >>

C14_Step ==
    /\ requests' \in {requests, requests + 1}
    /\ (requests' = requests + 1) => (requests = 0 /\ pc' \in {"streaming", "failed"})
    /\ (pc = "streaming" /\ underlying' # underlying) => pc' = "failed"
    /\ pc = "failed" => (pc' = "failed" /\ requests' = requests /\ arrived' = arrived)

\* C14: a run issues the backend request at most once; a failure of the
\* request or of its stream ends the run as Failed in that step, and a failed
\* run issues no further request and reads no further chunk.
C14_AtMostOneRequest == [] (requests <= 1) /\ [][C14_Step]_vars

C14_Witness ==
    /\ variant = "api"
    /\ pc = "failed"
    /\ requests = 1
    /\ arrived = << << "Hel" >> >>
    /\ exit_code = 1

\* ======================================================================
\* Properties of the command lines (checked under Spec)
\* ======================================================================

\* The run is one of a main: cli.py's around api.py, or gemini_repo_cli.py's.
InMain == variant \in {"api", "cli"}

\* What cli.py's main prints for content.
Printed(content) == << Write("content", content \o "\n") >>

\* The output step of the main that ran has put the content where it belongs.
OutputSucceeded ==
    IF variant = "cli" THEN pc = "succeeded"
    ELSE /\ pc = "succeeded"
         /\ IF Truthy(output_arg) THEN out_file = result ELSE stdout = Printed(result[1])

\* C17 as claimed: each main exits with 0 when generation and output succeeded
\* and with a non-zero status when provider initialization or generation failed.
C17_ExitCodes ==
    (InMain /\ exit_code # Running) =>
        /\ OutputSucceeded => exit_code = 0
        /\ pc \in {"ctor_raised", "failed"} => exit_code # 0

\* C18 as claimed: once cli.py's main has ended after a successful generation,
\* the content is in exactly one place, the file at --output when given and
\* standard output otherwise.
C18_AsClaimed ==
    (variant = "api" /\ pc = "succeeded" /\ exit_code # Running) =>
        IF Truthy(output_arg)
        THEN out_file = result /\ stdout = << >>
        ELSE stdout = Printed(result[1]) /\ out_file = None

\* C18 amended: cli.py's main writes nothing before generation succeeded; with
\* --output nothing is ever printed to standard output and without it no file
\* or directory is ever touched; a main that exits 0 has put the content in
\* that one place, and one whose write failed exits 1 with the content in
\* neither.
C18_OneDestination ==
    variant = "api" =>
        /\ (pc # "succeeded" \/ exit_code = Running) =>
               (stdout = << >> /\ out_file = None /\ ~out_dirs)
        /\ Truthy(output_arg) => stdout = << >>
        /\ ~Truthy(output_arg) => (out_file = None /\ ~out_dirs)
        /\ exit_code = 0 =>
               /\ pc = "succeeded"
               /\ IF Truthy(output_arg) THEN out_file = result
                                        ELSE stdout = Printed(result[1])
        /\ (pc = "succeeded" /\ exit_code = 1) =>
               (stdout = << >> /\ out_file \in {None, Some("")})

C18_Witness ==
    /\ variant = "api"
    /\ exit_code = 0
    /\ output_arg = Some("out/gen.md")
    /\ out_dirs
    /\ out_file = Some("Hello, world")
    /\ stdout = << >>

\* ======================================================================
\* Error propagation (checked under Spec)
\* ======================================================================

\* The operation in which the error was raised has itself raised.
Raised == pc \in {"ctor_raised", "asm_raised", "failed"} /\ err # NoErr

\* The caller's error, and the failed signal of a Qt worker running this
\* call, carry text t.
Carries(t) ==
    /\ Contains(err.msg, t)
    /\ pc = "failed" => Contains(WorkerErrorText(err), t)

\* C19 as claimed: an error raised below an API class leaves the operation as
\* an error whose message contains the underlying error's message.
C19_AsClaimed ==
    (InClass /\ underlying # NoErr) => (Raised /\ Carries(underlying.msg))

\* The underlying error is one of open().
ReadError == underlying.type \in {"FileNotFoundError", "PermissionError"}
\* The path open() was called on when it raised the underlying error.
ErrorPath == CHOOSE p \in Paths : Contains(underlying.msg, "'" \o p \o "'")

\* C19 amended: in api.py every error raised below leaves the operation as an
\* error; its message, and the Qt worker's failed signal, contain the
\* underlying message, except that for a missing file they name the path
\* instead. In gemini_repo_api.py the same holds for errors of the client
\* constructor and of the backend, while a read error is printed with the
\* path, not raised, and assembly goes on.
C19_ErrorsReachCaller ==
    (InClass /\ underlying # NoErr) =>
        CASE variant = "api" /\ underlying.type = "FileNotFoundError" ->
                 Raised /\ Carries(ErrorPath)
          [] variant = "legacy" /\ ReadError ->
                 /\ pc \in {"reading", "assembled", "streaming", "succeeded"}
                 /\ err = NoErr
                 /\ stdout # << >>
                 /\ Contains(stdout[Len(stdout)].text, ErrorPath)
          [] OTHER -> Raised /\ Carries(underlying.msg)

C19_Witness ==
    /\ variant = "api"
    /\ pc = "failed"
    /\ underlying = Raise("PermissionError", "[Errno 13] Permission denied: 'b.txt'")
    /\ err.type = "Exception"
    /\ reads = << "a.txt", "b.txt" >>

\* ======================================================================
\* Properties of the interactive frontends (checked under SpecUI)
\* ======================================================================

\* The workers whose run() has not returned yet, started ones included.
Unreturned == {w \in 1..Len(workers) : workers[w].st \notin {"returned", "terminated"}}
\* The workers whose thread is inside generate_content.
Generating == {w \in 1..Len(workers) : workers[w].st = "generating"}

\* C15 as claimed: in the Qt window at most one worker has been started and
\* has not yet returned from run(), whatever the interleaving of clicks, worker
\* steps and signal delivery.
C15_SingleFlight == ui = "qt" => Cardinality(Unreturned) <= 1

\* The text of the key field gives no credential and neither does the
\* environment.
NoUiCredential == Strip(api_key_arg[1]) = "" /\ ~Truthy(env)
\* The three required fields are filled in.
FieldsFilled == Strip(repo_name) # "" /\ Strip(target_file_name) # "" /\ Strip(prompt) # ""

C16_Step ==
    ui = "qt" =>
        /\ Len(workers') # Len(workers) =>
              /\ clicks' = clicks + 1
              /\ init_error' = NoErr
              /\ FieldsFilled
              /\ ~(provider = "Gemini" /\ NoUiCredential)
              /\ Len(workers') = Len(workers) + 1
              /\ dialogs' = dialogs
        /\ (clicks' = clicks + 1 /\ FieldsFilled /\ provider = "Gemini" /\ NoUiCredential)
              => init_error'.type = "ValueError"
        /\ (clicks' = clicks + 1 /\ init_error' # NoErr) =>
              /\ workers' = workers
              /\ generation_worker' = generation_worker
              /\ events' = events
              /\ Len(dialogs') = Len(dialogs) + 1
              /\ dialogs'[Len(dialogs')].kind = "critical"
              /\ Contains(dialogs'[Len(dialogs')].text, init_error'.msg)
              /\ button_enabled'
              /\ ui_pc' = "loop"

\* C16: in the Qt window a click whose provider construction fails (missing
\* credential or any other constructor error) shows the error in a dialog
\* during handle_generate, re-enables the button and returns without creating
\* or starting a worker; a worker is created only by a click in which the
\* provider was constructed.
C16_NoWorkerOnInitFailure == [][C16_Step]_vars

C16_Witness ==
    /\ ui = "qt"
    /\ provider = "Gemini"
    /\ NoUiCredential
    /\ clicks = 2
    /\ init_error.type = "ValueError"
    /\ workers = << >>
    /\ Len(dialogs) = 2
    /\ button_enabled

\* C20 as claimed: in both windows generate_content runs on a worker thread
\* only; the UI thread never calls it and is in its event loop while a call is
\* in flight.
C20_BackgroundWorker ==
    ui \in {"qt", "tk"} => (ui_pc = "loop" /\ "ui" \notin call_threads)

\* ======================================================================
\* Ordering, credentials and the output of a failed run (checked under Spec)
\* ======================================================================

\* C25 as claimed: while the credential is missing, a main has read no context
\* file and assembled no prompt part, at any point of its run.
C25_CredentialFirst ==
    (InMain /\ NoCredential) =>
        /\ reads = << >>
        /\ model_inputs = << >>
        /\ inputs = << >>

\* The argument is absent: None or the empty string.
Absent(o) == o = None \/ o = Some("")

\* C26: once GeminiRepoAPI.__init__ has run, self.api_key is the explicit
\* argument when that is given and non-empty, whatever the environment holds,
\* and the value of GEMINI_API_KEY otherwise; the constructor raises the
\* missing-credential ValueError exactly when the argument and the variable
\* are both absent or empty, and then constructs no client.
C26_CredentialResolution ==
    (InClass /\ pc # "new") =>
        /\ ~Absent(api_key_arg) => api_key = api_key_arg
        /\ Absent(api_key_arg) => api_key = env
        /\ (pc = "ctor_raised" /\ err.type = "ValueError")
               <=> (Absent(api_key_arg) /\ Absent(env))
        /\ (Absent(api_key_arg) /\ Absent(env)) => ~client

C26_Witness ==
    /\ variant = "api"
    /\ api_key_arg = Some("arg-key")
    /\ env = Some("env-key")
    /\ pc = "constructed"
    /\ api_key = Some("arg-key")
    /\ client

\* C28: in cli.py's main, a run whose provider construction or generation
\* failed has not created or written the --output file, has not created its
\* directory and has printed nothing to standard output, up to and including
\* its exit with status 1 and one line on standard error.
C28_NothingWrittenOnFailure ==
    (variant = "api" /\ pc \in {"ctor_raised", "failed"}) =>
        /\ out_file = None
        /\ ~out_dirs
        /\ stdout = << >>
        /\ exit_code \in {Running, 1}
        /\ exit_code = 1 => Len(stderr) = 1

C28_Witness ==
    /\ variant = "api"
    /\ pc = "failed"
    /\ requests = 1
    /\ exit_code = 1
    /\ output_arg = Some("out/gen.md")
    /\ out_file = None
    /\ ~out_dirs
    /\ stdout = << >>

\* ======================================================================
\* Workers, signals and the window's handlers (checked under SpecUI)
\* ======================================================================

\* A step of the Qt window in which a Generate click starts a generation:
\* the click is counted and leaves the button disabled.
StartsGeneration ==
    /\ ui = "qt"
    /\ clicks' = clicks + 1
    /\ ~button_enabled'

\* C21: every Generate click that starts a generation constructs a fresh
\* GenerationWorker, one more than there were, not yet run, and it becomes
\* the window's current worker while the earlier workers stay as they
\* were; and no worker's run is entered more than once.
C21_FreshWorker ==
    /\ [](\A w \in 1..Len(workers) : workers[w].runs <= 1)
    /\ [][/\ StartsGeneration =>
               /\ Len(workers') = Len(workers) + 1
               /\ SubSeq(workers', 1, Len(workers)) = workers
               /\ workers'[Len(workers')].runs = 0
               /\ workers'[Len(workers')].signals = << >>
               /\ generation_worker' = Len(workers')
          /\ \A w \in 1..Len(workers) :
                 workers'[w].runs > workers[w].runs => workers[w].runs = 0
         ]_vars

\* Two clicks started two workers, and each has run once.
C21_Witness ==
    /\ ui = "qt"
    /\ Len(workers) = 2
    /\ \A w \in 1..2 : workers[w].runs = 1

\* The inputs of the Qt window: repository name, target file name, prompt,
\* context file list, provider, provider options and output path.
PriorInputs ==
    << repo_name, target_file_name, prompt, file_paths, context_listbox, provider,
       api_key_arg, env, output_arg >>

\* The UI thread takes a failed(message) signal off its queue.
HandlesError ==
    /\ ui = "qt"
    /\ events # << >>
    /\ Head(events).sig = "error"
    /\ events' = Tail(events)

\* C22: handling a failed(message) signal shows the worker's message in a
\* critical alert and in the output pane and re-enables the Generate control;
\* and from the Generate click to the end of the handler the inputs are only
\* ever changed by the user's own Add and Remove clicks: the click, the
\* worker's steps and the handler leave every input as it was.
C22_ErrorKeepsInputs ==
    [][ui = "qt" =>
         /\ HandlesError =>
               /\ dialogs' = Append(dialogs, [kind |-> "critical",
                                              text |-> Head(events).text])
               /\ output_display' = Append(output_display,
                     "\n--- GENERATION ERROR ---\n" \o Head(events).text)
               /\ button_enabled'
               /\ PriorInputs' = PriorInputs
         /\ PriorInputs' # PriorInputs => list_ops' = list_ops + 1
      ]_vars

\* A failed generation has been reported for a window whose context file
\* list the user had filled before the click.
C22_Witness ==
    /\ ui = "qt"
    /\ list_ops = 1
    /\ clicks = 1
    /\ file_paths # << >>
    /\ events = << >>
    /\ button_enabled
    /\ Len(dialogs) = 1
    /\ dialogs[1].kind = "critical"
    /\ init_error = NoErr

\* The signals a run may have emitted so far, by how far it has come.
ProtocolAt(w) ==
    LET sent == workers[w].signals
    IN CASE workers[w].st = "started" -> sent = << >>
         [] workers[w].st = "generating" -> sent = << "started" >>
         [] workers[w].st \in {"emitted", "returned"} ->
                /\ Len(sent) = 2
                /\ sent[1] = "started"
                /\ sent[2] \in {"finished", "error"}
         [] OTHER -> TRUE

\* Worker w emits in this step: one signal, queued for the UI thread with
\* the worker's name on it.
EmitsOne(w) ==
    /\ workers'[w].signals = Append(workers[w].signals,
                                    workers'[w].signals[Len(workers'[w].signals)])
    /\ Len(events') = Len(events) + 1
    /\ events'[Len(events')].sig = workers'[w].signals[Len(workers'[w].signals)]
    /\ events'[Len(events')].worker = w

\* C24: a run that is not forcibly terminated emits 'started' first and
\* once, then exactly one of succeeded (finished_signal) and failed
\* (error_signal), and nothing after it: a run that has ended has emitted
\* exactly these two signals, every emission adds one signal to the UI
\* thread's queue, and the queue grows by nothing else.
C24_SignalProtocol ==
    /\ [](ui = "qt" => \A w \in 1..Len(workers) : ProtocolAt(w))
    /\ [][ui = "qt" =>
            /\ \A w \in 1..Len(workers) :
                  \/ workers'[w].signals = workers[w].signals
                  \/ /\ workers[w].st \in {"started", "generating"}
                     /\ EmitsOne(w)
            /\ Len(events') > Len(events) =>
                  \E w \in 1..Len(workers) : workers'[w].signals # workers[w].signals
         ]_vars

\* One run has ended after reporting success and another after reporting
\* failure.
C24_Witness ==
    /\ ui = "qt"
    /\ \E w \in 1..Len(workers) :
          workers[w].st = "returned" /\ workers[w].signals = << "started", "finished" >>
    /\ \E w \in 1..Len(workers) :
          workers[w].st = "returned" /\ workers[w].signals = << "started", "error" >>

\* ======================================================================
\* Validation, the context file list and the Generate control
\* ======================================================================

\* The text is empty once str.strip() has taken its blanks away.
Blank(s) == \A i \in 1..Len(s) : SubSeq(s, i, i) = " "

\* One of the three required fields is empty: after trimming in the Qt
\* window, as typed in the tkinter window.
RequiredFieldEmpty ==
    IF ui = "qt"
    THEN Blank(repo_name) \/ Blank(target_file_name) \/ Blank(prompt)
    ELSE repo_name = "" \/ target_file_name = "" \/ prompt = ""

\* C29: a Generate click with the repository name, the target file name or
\* the prompt empty constructs no provider, starts no worker and enters no
\* generate_content call, and tells the user so; a provider is constructed
\* and a generation started only when all three are filled.
C29_Validation ==
    [][/\ (clicks' = clicks + 1 /\ RequiredFieldEmpty) =>
              /\ ctor_calls' = ctor_calls
              /\ workers' = workers
              /\ events' = events
              /\ ui_pc' = ui_pc
              /\ call_threads' = call_threads
              /\ Len(dialogs') = Len(dialogs) + 1
              /\ dialogs'[Len(dialogs')].kind = (IF ui = "qt" THEN "warning" ELSE "error")
       /\ (\/ ctor_calls' # ctor_calls
           \/ Len(workers') > Len(workers)
           \/ (ui_pc = "loop" /\ ui_pc' = "generating")) => ~RequiredFieldEmpty
      ]_vars

\* A Generate click in the Qt window was refused because a field held
\* nothing but a blank, and one in the tkinter window because the prompt was
\* empty.
C29_Witness ==
    /\ clicks = 1
    /\ ctor_calls = 0
    /\ Len(dialogs) = 1
    /\ \/ ui = "qt" /\ target_file_name = " " /\ dialogs[1].kind = "warning"
       \/ ui = "tk" /\ prompt = "" /\ dialogs[1].kind = "error"

\* C30: in the tkinter window the internal context_files list and the
\* visible list box hold the same paths in the same order after every
\* sequence of Add and Remove clicks, cancelled dialogs and removes without
\* a selection included, so generate_content is given the displayed paths.
C30_ListInSync == ui = "tk" => context_listbox = file_paths

\* A path was added after the one the window started with, and the first
\* was then removed.
C30_Witness ==
    /\ ui = "tk"
    /\ list_ops = 2
    /\ file_paths = << "b.txt" >>
    /\ context_listbox = << "b.txt" >>

\* ======================================================================
\* Closing the window and the Generate control
\* ======================================================================

\* The workers whose thread has been started and has not ended.
RunningWorkers == {w \in 1..Len(workers) :
                      workers[w].st \in {"started", "generating", "emitted"}}

\* A step in which the window handles a close event: it closes or the user
\* answers the question.
Closes == ui = "qt" /\ window_open /\ (~window_open' \/ reply' # reply)

\* C23 as claimed: when the window is closed with no worker running it
\* closes without a question; with a worker running and the user's Yes, no
\* worker is left running when the window is closed, and no handler runs
\* afterwards; with the user's No, the window stays open and the workers
\* run on as they were.
C23_Close ==
    [][/\ (Closes /\ RunningWorkers = {}) => (~window_open' /\ reply' = reply)
       /\ (Closes /\ RunningWorkers # {}) =>
             \/ /\ reply' = "Yes"
                /\ ~window_open'
                /\ \A w \in RunningWorkers : workers'[w].st = "terminated"
             \/ /\ reply' = "No"
                /\ window_open'
                /\ workers' = workers
       /\ ~window_open => UNCHANGED << dialogs, output_display, button_enabled, events >>
      ]_vars

\* Worker w is in flight: its run has not yet emitted its terminal signal, or
\* the signal waits in the UI thread's queue.
InFlight(w) ==
    \/ workers[w].st \in {"started", "generating"}
    \/ \E i \in 1..Len(events) :
          events[i].worker = w /\ events[i].sig \in {"finished", "error"}

\* C27: in the Qt window the Generate button that a click disabled is
\* enabled again on every path. A click that starts no worker (a required
\* field is empty, or the provider cannot be constructed) leaves the button
\* enabled; while the button is disabled the worker of the last click is in
\* flight; and, the workers' runs going on and their signals being
\* delivered, a disabled button is enabled again, unless the window is
\* closed first.
C27_ButtonReenabled ==
    /\ []((ui = "qt" /\ window_open /\ ~button_enabled) =>
              generation_worker # 0 /\ InFlight(generation_worker))
    /\ [][(ui = "qt" /\ clicks' = clicks + 1 /\ Len(workers') = Len(workers))
              => button_enabled']_vars
    /\ ((ui = "qt" /\ ~button_enabled) ~> (button_enabled \/ ~window_open))

\* The button is enabled again after a generation that succeeded and whose
\* output could not be saved.
C27_Witness ==
    /\ ui = "qt"
    /\ window_open
    /\ clicks = 1
    /\ button_enabled
    /\ Len(workers) = 1
    /\ workers[1].signals = << "started", "finished" >>
    /\ events = << >>
    /\ Len(dialogs) = 1
    /\ dialogs[1].kind = "warning"
    /\ out_file # Some(generated_content)

====
